---- MODULE Spec2Model ----
(***************************************************************************)
(* Competitive tracker: snapshot storage (tracker/storage.py), snapshot    *)
(* model (tracker/models/snapshot.py), change detector                     *)
(* (tracker/change_detector.py) and scan coordinator (tracker/agent.py).   *)
(*                                                                         *)
(* Time is counted in clock ticks; TicksPerSecond ticks make one second.   *)
(* datetime.now().isoformat() keeps the full tick, while                   *)
(* strftime("%Y%m%d_%H%M%S") keeps only the second.                        *)
(***************************************************************************)
EXTENDS Integers, Sequences, FiniteSets, TLC

\* ------------------------------------------------------------------ bounds
TicksPerSecond == 2
MaxSecond == 2
MaxClock == (MaxSecond + 1) * TicksPerSecond - 1
MaxScanClock == 2 * TicksPerSecond - 1
MaxSaves == 3
MaxPerCompany == 2
MaxLen == 2
MaxBatch == 2
MaxRetries == 4
MaxDelay == 2

\* ------------------------------------------------------------- value sets
Companies == {"fixo", "taskrabbit"}
NoTimestamp == -1
ServiceLists == {<<"A">>}

\* Python's None where a snapshot is expected, and where a string is expected.
\* A Python str value v carried by a Change is the one-element tuple <<v>>,
\* a formatted string is the tuple of its pieces.
NoSnapshot == [none |-> TRUE]
None == <<>>
Str(v) == <<v>>

\* ---------------------------------------------------------- snapshot model
\* CompanySnapshot.__post_init__: an absent (falsy) timestamp becomes now.
PostInit(s, clock) ==
  IF s.timestamp = NoTimestamp THEN [s EXCEPT !.timestamp = clock] ELSE s

\* CompanySnapshot(...): the dataclass constructor followed by __post_init__.
CompanySnapshot(cid, ts, services, pricing, locations, promotions, business_info, raw_pages, clock) ==
  PostInit([company_id |-> cid, timestamp |-> ts, services |-> services,
            pricing |-> pricing, locations |-> locations,
            promotions |-> promotions, business_info |-> business_info,
            raw_pages |-> raw_pages, metadata |-> <<>>], clock)

\* to_dict / to_json: the record of all dataclass fields, as written to disk.
to_json(s) ==
  [company_id |-> s.company_id, timestamp |-> s.timestamp,
   services |-> s.services, pricing |-> s.pricing,
   locations |-> s.locations, promotions |-> s.promotions,
   business_info |-> s.business_info, raw_pages |-> s.raw_pages,
   metadata |-> s.metadata]

\* from_json / from_dict: rebuild the dataclass (runs __post_init__ again).
from_json(d, clock) ==
  PostInit([company_id |-> d.company_id, timestamp |-> d.timestamp,
            services |-> d.services, pricing |-> d.pricing,
            locations |-> d.locations, promotions |-> d.promotions,
            business_info |-> d.business_info, raw_pages |-> d.raw_pages,
            metadata |-> d.metadata], clock)

\* now    the wall clock, in ticks
\* files  per company directory, the stored file contents by file name
\* dirs   the company directories that exist under base_dir
\* ret    the storage operation that ran last
\* saved  history: per company, the snapshots passed to save_snapshot, in order
\* wrote  history: per company and stored file, the index in saved of the
\*        save that wrote it
\* old, new, result   the arguments and the outcome of detect_changes
\* pc        the position of run_scan: idle, a stage of _scan_company for
\*           the current company, report, returned or raised
\* batch     the company_ids argument of run_scan
\* idx       the position of the for loop in batch
\* previous, new_snapshot   the locals of _scan_company
\* all_changes, current_snapshots   the two dicts built by run_scan
\* errlog    the company ids written by logger.error, in order
\* calls     history: the calls made by this run, as
\*           <<company id, callee, outcome>>
\* fpc, url, max_retries, delay, attempt   fetch_page: its position, its
\*           argument, the two settings it reads and its loop variable
\* fetched   history: the outcome of each attempt of fetch_page, in order
\* sleeps    history: the time.sleep calls of fetch_page, in order
\* fres      the outcome of fetch_page
\* wpc, wsnap, wdoomed   a save_snapshot in progress: its position, its
\*           argument and the files its cleanup has still to unlink
\* rpc, rop, rcid, rlist, rres   a storage read in progress: its position,
\*           the method, its argument, the listed files still to load and
\*           its outcome
VARIABLES now, files, dirs, ret, saved, wrote, old, new, result, pc, batch, idx, previous, new_snapshot, all_changes, current_snapshots, errlog, calls, fpc, url, max_retries, delay, attempt, fetched, sleeps, fres, wpc, wsnap, wdoomed, rpc, rop, rcid, rlist, rres

svars == <<now, files, dirs, ret, saved, wrote>>
dvars == <<old, new, result>>
avars == <<pc, batch, idx, previous, new_snapshot, all_changes, current_snapshots, errlog, calls>>
fvars == <<fpc, url, max_retries, delay, attempt, fetched, sleeps, fres>>
rvars == <<wpc, wsnap, wdoomed, rpc, rop, rcid, rlist, rres>>
vars == <<now, files, dirs, ret, saved, wrote, old, new, result, pc, batch, idx, previous, new_snapshot, all_changes, current_snapshots, errlog, calls, fpc, url, max_retries, delay, attempt, fetched, sleeps, fres, wpc, wsnap, wdoomed, rpc, rop, rcid, rlist, rres>>

\* ------------------------------------------------------------ storage model
\* strftime("%Y%m%d_%H%M%S"): the clock truncated to whole seconds.
strftime(clock) == clock \div TicksPerSecond

\* f"{company_id}_{timestamp}.json": within one company directory the file
\* name is determined by the second of the save.
filename(cid, clock) == strftime(clock)

\* company_dir.glob(f"{company_id}_*.json"): the file names in the directory.
glob(fs, cid) == DOMAIN fs[cid]

SetMax(S) == CHOOSE m \in S : \A x \in S : x <= m

\* sorted(..., reverse=True): file names in descending order.
RECURSIVE sorted_reverse(_)
sorted_reverse(S) ==
  IF S = {} THEN <<>>
  ELSE LET m == SetMax(S) IN <<m>> \o sorted_reverse(S \ {m})

\* files[max_per_company:]
Slice(seq, from) ==
  IF from >= Len(seq) THEN <<>> ELSE SubSeq(seq, from + 1, Len(seq))

SeqRange(seq) == {seq[i] : i \in 1..Len(seq)}

\* _company_dir: mkdir(parents=True, exist_ok=True) on base_dir / company_id.
company_dir(ds, cid) == ds \cup {cid}

\* CompanySnapshot.save: open(filepath, "w") creates or truncates the file.
WriteFile(fs, cid, name, s) ==
  [fs EXCEPT ![cid] =
     [k \in (DOMAIN fs[cid]) \cup {name} |->
        IF k = name THEN to_json(s) ELSE fs[cid][k]]]

\* Variant: the listing is sorted ascending, so the newest files are unlinked.
cleanup_old_snapshots_KeepOldest(fs, cid) ==
  LET fl == sorted_reverse(glob(fs, cid))
      doomed == IF Len(fl) > MaxPerCompany
                THEN {fl[i] : i \in 1..(Len(fl) - MaxPerCompany)} ELSE {}
  IN [fs EXCEPT ![cid] = [k \in (DOMAIN fs[cid]) \ doomed |-> fs[cid][k]]]

\* Variant: the listing spans the directories of all companies, and only
\* the newest max_per_company files overall are kept.
cleanup_old_snapshots_AllCompanies(fs, cid) ==
  LET all == UNION {{<<c, k>> : k \in DOMAIN fs[c]} : c \in DOMAIN fs}
      newer(p) == {q \in all : \/ q[2] > p[2]
                               \/ q[2] = p[2] /\ q[1] = cid /\ p[1] # cid}
      doomed == {p \in all : Cardinality(newer(p)) >= MaxPerCompany}
  IN [c \in DOMAIN fs |->
        [k \in {k \in DOMAIN fs[c] : <<c, k>> \notin doomed} |-> fs[c][k]]]

\* _cleanup_old_snapshots: unlink every file past the newest max_per_company.
cleanup_old_snapshots(fs, cid) ==
  LET fl == sorted_reverse(glob(fs, cid))
      doomed == IF Len(fl) > MaxPerCompany
                THEN SeqRange(Slice(fl, MaxPerCompany)) ELSE {}
  IN [fs EXCEPT ![cid] = [k \in (DOMAIN fs[cid]) \ doomed |-> fs[cid][k]]]

\* CompanySnapshot.load
load(fs, cid, name, clock) == from_json(fs[cid][name], clock)

get_latest_snapshot(fs, cid, clock) ==
  LET fl == sorted_reverse(glob(fs, cid))
  IN IF Len(fl) = 0 THEN NoSnapshot ELSE load(fs, cid, fl[1], clock)

\* Variant: the index of the newest file is read instead of the second.
get_previous_snapshot_first(fs, cid, clock) ==
  LET fl == sorted_reverse(glob(fs, cid))
  IN IF Len(fl) < 2 THEN NoSnapshot ELSE load(fs, cid, fl[1], clock)

get_previous_snapshot(fs, cid, clock) ==
  LET fl == sorted_reverse(glob(fs, cid))
  IN IF Len(fl) < 2 THEN NoSnapshot ELSE load(fs, cid, fl[2], clock)

\* Variant: the listing is sorted without reverse=True.
get_all_snapshots_ascending(fs, cid, clock) ==
  LET fl == sorted_reverse(glob(fs, cid))
  IN [i \in 1..Len(fl) |-> load(fs, cid, fl[Len(fl) + 1 - i], clock)]

get_all_snapshots(fs, cid, clock) ==
  LET fl == sorted_reverse(glob(fs, cid))
  IN [i \in 1..Len(fl) |-> load(fs, cid, fl[i], clock)]

\* ----------------------------------------------------------- change model
\* Change(...): the dataclass of tracker/models/change.py.
Change(cid, change_type, category, description, old_value, new_value, timestamp, severity) ==
  [company_id |-> cid, change_type |-> change_type, category |-> category,
   description |-> description, old_value |-> old_value,
   new_value |-> new_value, timestamp |-> timestamp, severity |-> severity]

\* ChangeType enum values.
SERVICE_ADDED == "service_added"
SERVICE_REMOVED == "service_removed"
PRICE_CHANGED == "price_changed"
LOCATION_ADDED == "location_added"
LOCATION_REMOVED == "location_removed"
PROMOTION_NEW == "promotion_new"
PROMOTION_EXPIRED == "promotion_expired"
BUSINESS_MODEL_CHANGE == "business_model_change"
WEBSITE_CONTENT_CHANGE == "website_content_change"

\* ---------------------------------------------------------- detector model
\* set(list)
set(seq) == {seq[i] : i \in 1..Len(seq)}

\* dict.get(key, default)
Get(d, key, default) == IF key \in DOMAIN d THEN d[key] ELSE default

\* Truthiness of a Python string (hashes are tuples of characters).
Truthy(h) == h # <<>>

\* h[:16]
HashPreviewLen == 16
Head16(h) == IF Len(h) <= HashPreviewLen THEN h ELSE SubSeq(h, 1, HashPreviewLen)

\* Iterating a Python set visits its elements once each, in an order the
\* language does not fix: every enumeration of S is a possible order.
RECURSIVE Orders(_)
Orders(S) ==
  IF S = {} THEN {<<>>}
  ELSE UNION {{<<x>> \o r : r \in Orders(S \ {x})} : x \in S}

RECURSIVE Flatten(_)
Flatten(ss) == IF ss = <<>> THEN <<>> ELSE Head(ss) \o Flatten(Tail(ss))

\* changes.extend(a); changes.extend(b) over every possible a and b.
Extend(A, B) == {a \o b : a \in A, b \in B}

ServiceAdded(n, service, timestamp) ==
  Change(n.company_id, SERVICE_ADDED, "services",
         <<"Novo serviço detetado: ", service>>, None, Str(service),
         timestamp, "high")

\* Variant: the removed service is passed as new_value.
ServiceRemoved_AsNewValue(n, service, timestamp) ==
  Change(n.company_id, SERVICE_REMOVED, "services",
         <<"Serviço removido: ", service>>, None, Str(service),
         timestamp, "high")

ServiceRemoved(n, service, timestamp) ==
  Change(n.company_id, SERVICE_REMOVED, "services",
         <<"Serviço removido: ", service>>, Str(service), None,
         timestamp, "high")

\* Variant: the loops run over the service lists instead of the sets.
detect_service_changes_OverLists(o, n, timestamp) ==
  LET old_services == set(o.services)
      new_services == set(n.services)
      added == SelectSeq(n.services, LAMBDA x : x \notin old_services)
      removed == SelectSeq(o.services, LAMBDA x : x \notin new_services)
  IN {[i \in 1..Len(added) |-> ServiceAdded(n, added[i], timestamp)]
        \o [i \in 1..Len(removed) |-> ServiceRemoved(n, removed[i], timestamp)]}

\* _detect_service_changes: the set of lists it can return.
detect_service_changes(o, n, timestamp) ==
  LET old_services == set(o.services)
      new_services == set(n.services)
  IN Extend(
       {[i \in 1..Len(p) |-> ServiceAdded(n, p[i], timestamp)] :
          p \in Orders(new_services \ old_services)},
       {[i \in 1..Len(p) |-> ServiceRemoved(n, p[i], timestamp)] :
          p \in Orders(old_services \ new_services)})

\* Variant: a removed price is reported with severity high.
PricingChange_RemovedHigh(o, n, key, timestamp) ==
  LET old_has == key \in DOMAIN o.pricing
      new_has == key \in DOMAIN n.pricing
  IN IF ~old_has /\ new_has
     THEN <<Change(n.company_id, PRICE_CHANGED, "pricing",
                   <<"Novo preço registado para: ", key>>,
                   None, Str(n.pricing[key]), timestamp, "medium")>>
     ELSE IF old_has /\ ~new_has
     THEN <<Change(n.company_id, PRICE_CHANGED, "pricing",
                   <<"Preço removido para: ", key>>,
                   Str(o.pricing[key]), None, timestamp, "high")>>
     ELSE IF old_has /\ new_has /\ o.pricing[key] # n.pricing[key]
     THEN <<Change(n.company_id, PRICE_CHANGED, "pricing",
                   <<"Preço alterado para ", key, ": ", o.pricing[key],
                     " -> ", n.pricing[key]>>,
                   Str(o.pricing[key]), Str(n.pricing[key]),
                   timestamp, "high")>>
     ELSE <<>>

\* Variant: the last branch is a plain else, without old_price != new_price.
PricingChange_NoCompare(o, n, key, timestamp) ==
  LET old_has == key \in DOMAIN o.pricing
      new_has == key \in DOMAIN n.pricing
  IN IF ~old_has /\ new_has
     THEN <<Change(n.company_id, PRICE_CHANGED, "pricing",
                   <<"Novo preço registado para: ", key>>,
                   None, Str(n.pricing[key]), timestamp, "medium")>>
     ELSE IF old_has /\ ~new_has
     THEN <<Change(n.company_id, PRICE_CHANGED, "pricing",
                   <<"Preço removido para: ", key>>,
                   Str(o.pricing[key]), None, timestamp, "medium")>>
     ELSE IF old_has /\ new_has
     THEN <<Change(n.company_id, PRICE_CHANGED, "pricing",
                   <<"Preço alterado para ", key, ": ", o.pricing[key],
                     " -> ", n.pricing[key]>>,
                   Str(o.pricing[key]), Str(n.pricing[key]),
                   timestamp, "high")>>
     ELSE <<>>

\* Body of the loop of _detect_pricing_changes for one key: the changes
\* appended for it.  pricing.get(key) is None exactly when the key is absent.
PricingChange(o, n, key, timestamp) ==
  LET old_has == key \in DOMAIN o.pricing
      new_has == key \in DOMAIN n.pricing
  IN IF ~old_has /\ new_has
     THEN <<Change(n.company_id, PRICE_CHANGED, "pricing",
                   <<"Novo preço registado para: ", key>>,
                   None, Str(n.pricing[key]), timestamp, "medium")>>
     ELSE IF old_has /\ ~new_has
     THEN <<Change(n.company_id, PRICE_CHANGED, "pricing",
                   <<"Preço removido para: ", key>>,
                   Str(o.pricing[key]), None, timestamp, "medium")>>
     ELSE IF old_has /\ new_has /\ o.pricing[key] # n.pricing[key]
     THEN <<Change(n.company_id, PRICE_CHANGED, "pricing",
                   <<"Preço alterado para ", key, ": ", o.pricing[key],
                     " -> ", n.pricing[key]>>,
                   Str(o.pricing[key]), Str(n.pricing[key]),
                   timestamp, "high")>>
     ELSE <<>>

detect_pricing_changes(o, n, timestamp) ==
  LET all_keys == (DOMAIN o.pricing) \cup (DOMAIN n.pricing)
  IN {Flatten([i \in 1..Len(p) |-> PricingChange(o, n, p[i], timestamp)]) :
        p \in Orders(all_keys)}

LocationAdded(n, location, timestamp) ==
  Change(n.company_id, LOCATION_ADDED, "locations",
         <<"Nova localização: ", location>>, None, Str(location),
         timestamp, "high")

\* Variant: a removed location is reported with severity high.
LocationRemoved_High(n, location, timestamp) ==
  Change(n.company_id, LOCATION_REMOVED, "locations",
         <<"Localização removida: ", location>>, Str(location), None,
         timestamp, "high")

LocationRemoved(n, location, timestamp) ==
  Change(n.company_id, LOCATION_REMOVED, "locations",
         <<"Localização removida: ", location>>, Str(location), None,
         timestamp, "medium")

detect_location_changes(o, n, timestamp) ==
  LET old_locations == set(o.locations)
      new_locations == set(n.locations)
  IN Extend(
       {[i \in 1..Len(p) |-> LocationAdded(n, p[i], timestamp)] :
          p \in Orders(new_locations \ old_locations)},
       {[i \in 1..Len(p) |-> LocationRemoved(n, p[i], timestamp)] :
          p \in Orders(old_locations \ new_locations)})

PromotionNew(n, promo, timestamp) ==
  Change(n.company_id, PROMOTION_NEW, "promotions",
         <<"Nova promoção: ", promo>>, None, Str(promo),
         timestamp, "medium")

\* Variant: an expired promotion is reported with severity medium.
PromotionExpired_Medium(n, promo, timestamp) ==
  Change(n.company_id, PROMOTION_EXPIRED, "promotions",
         <<"Promoção expirada/removida: ", promo>>, Str(promo), None,
         timestamp, "medium")

PromotionExpired(n, promo, timestamp) ==
  Change(n.company_id, PROMOTION_EXPIRED, "promotions",
         <<"Promoção expirada/removida: ", promo>>, Str(promo), None,
         timestamp, "info")

detect_promotion_changes(o, n, timestamp) ==
  LET old_promos == set(o.promotions)
      new_promos == set(n.promotions)
  IN Extend(
       {[i \in 1..Len(p) |-> PromotionNew(n, p[i], timestamp)] :
          p \in Orders(new_promos \ old_promos)},
       {[i \in 1..Len(p) |-> PromotionExpired(n, p[i], timestamp)] :
          p \in Orders(old_promos \ new_promos)})

\* Variant: the hashes are compared without testing that both are non-empty.
detect_business_changes_NoTruthy(o, n, timestamp) ==
  LET old_hash == Get(o.business_info, "about_text_hash", <<>>)
      new_hash == Get(n.business_info, "about_text_hash", <<>>)
  IN IF old_hash # new_hash
     THEN {<<Change(n.company_id, BUSINESS_MODEL_CHANGE, "business_model",
                    <<"Conteúdo da página 'Sobre' alterado - possível mudança no modelo de negócio">>,
                    Str(Get(o.business_info, "about_text_preview", "")),
                    Str(Get(n.business_info, "about_text_preview", "")),
                    timestamp, "medium")>>}
     ELSE {<<>>}

detect_business_changes(o, n, timestamp) ==
  LET old_hash == Get(o.business_info, "about_text_hash", <<>>)
      new_hash == Get(n.business_info, "about_text_hash", <<>>)
  IN IF Truthy(old_hash) /\ Truthy(new_hash) /\ old_hash # new_hash
     THEN {<<Change(n.company_id, BUSINESS_MODEL_CHANGE, "business_model",
                    <<"Conteúdo da página 'Sobre' alterado - possível mudança no modelo de negócio">>,
                    Str(Get(o.business_info, "about_text_preview", "")),
                    Str(Get(n.business_info, "about_text_preview", "")),
                    timestamp, "medium")>>}
     ELSE {<<>>}

\* Body of the loop of _detect_page_changes for one page.
\* Variant: the hashes are compared without testing that both are non-empty.
PageChange_NoTruthy(o, n, page, timestamp) ==
  LET old_hash == Get(o.raw_pages, page, <<>>)
      new_hash == Get(n.raw_pages, page, <<>>)
  IN IF old_hash # new_hash
     THEN <<Change(n.company_id, WEBSITE_CONTENT_CHANGE, "business_model",
                   <<"Conteúdo da página '", page, "' alterado">>,
                   <<"hash: ">> \o Head16(old_hash) \o <<"...">>,
                   <<"hash: ">> \o Head16(new_hash) \o <<"...">>,
                   timestamp, "info")>>
     ELSE <<>>

\* Variant: page changes are filed under a category of their own.
PageChange_OwnCategory(o, n, page, timestamp) ==
  LET old_hash == Get(o.raw_pages, page, <<>>)
      new_hash == Get(n.raw_pages, page, <<>>)
  IN IF Truthy(old_hash) /\ Truthy(new_hash) /\ old_hash # new_hash
     THEN <<Change(n.company_id, WEBSITE_CONTENT_CHANGE, "website",
                   <<"Conteúdo da página '", page, "' alterado">>,
                   <<"hash: ">> \o Head16(old_hash) \o <<"...">>,
                   <<"hash: ">> \o Head16(new_hash) \o <<"...">>,
                   timestamp, "info")>>
     ELSE <<>>

PageChange(o, n, page, timestamp) ==
  LET old_hash == Get(o.raw_pages, page, <<>>)
      new_hash == Get(n.raw_pages, page, <<>>)
  IN IF Truthy(old_hash) /\ Truthy(new_hash) /\ old_hash # new_hash
     THEN <<Change(n.company_id, WEBSITE_CONTENT_CHANGE, "business_model",
                   <<"Conteúdo da página '", page, "' alterado">>,
                   <<"hash: ">> \o Head16(old_hash) \o <<"...">>,
                   <<"hash: ">> \o Head16(new_hash) \o <<"...">>,
                   timestamp, "info")>>
     ELSE <<>>

detect_page_changes(o, n, timestamp) ==
  LET all_pages == (DOMAIN o.raw_pages) \cup (DOMAIN n.raw_pages)
  IN {Flatten([i \in 1..Len(p) |-> PageChange(o, n, p[i], timestamp)]) :
        p \in Orders(all_pages)}

\* Outcome of a call: a raised exception or a returned value.
ValueError == "ValueError"
Raise(e) == [raised |-> e, value |-> <<>>]
Return(v) == [raised |-> "", value |-> v]

\* Variant: the company ids are not compared.
detect_changes_NoIdCheck(o, n, timestamp) ==
  {Return(c) :
     c \in Extend(detect_service_changes(o, n, timestamp),
           Extend(detect_pricing_changes(o, n, timestamp),
           Extend(detect_location_changes(o, n, timestamp),
           Extend(detect_promotion_changes(o, n, timestamp),
           Extend(detect_business_changes(o, n, timestamp),
                  detect_page_changes(o, n, timestamp))))))}

\* Variant: the location changes are collected before the pricing changes.
detect_changes_LocationsFirst(o, n, timestamp) ==
  IF o.company_id # n.company_id
  THEN {Raise(ValueError)}
  ELSE {Return(c) :
          c \in Extend(detect_service_changes(o, n, timestamp),
                Extend(detect_location_changes(o, n, timestamp),
                Extend(detect_pricing_changes(o, n, timestamp),
                Extend(detect_promotion_changes(o, n, timestamp),
                Extend(detect_business_changes(o, n, timestamp),
                       detect_page_changes(o, n, timestamp))))))}

\* detect_changes: every outcome the call can have (the raised error, or
\* one returned list per iteration order of the sets).
detect_changes(o, n, timestamp) ==
  IF o.company_id # n.company_id
  THEN {Raise(ValueError)}
  ELSE {Return(c) :
          c \in Extend(detect_service_changes(o, n, timestamp),
                Extend(detect_pricing_changes(o, n, timestamp),
                Extend(detect_location_changes(o, n, timestamp),
                Extend(detect_promotion_changes(o, n, timestamp),
                Extend(detect_business_changes(o, n, timestamp),
                       detect_page_changes(o, n, timestamp))))))}

\* ---------------------------------------------------------------- actions
NotRun == [raised |-> "", value |-> <<>>, pending |-> TRUE]

\* The coordinator before run_scan is called.
AgentIdle ==
  /\ pc = "idle"
  /\ batch = <<>>
  /\ idx = 1
  /\ previous = NoSnapshot
  /\ new_snapshot = NoSnapshot
  /\ all_changes = <<>>
  /\ current_snapshots = <<>>
  /\ errlog = <<>>
  /\ calls = <<>>

\* No fetch_page call has been made.
FetchIdle ==
  /\ fpc = "idle"
  /\ url = ""
  /\ max_retries = 0
  /\ delay = 0
  /\ attempt = 0
  /\ fetched = <<>>
  /\ sleeps = <<>>
  /\ fres = NotRun

\* No storage call is in progress.
RaceIdle ==
  /\ wpc = "idle"
  /\ wsnap = NoSnapshot
  /\ wdoomed = <<>>
  /\ rpc = "idle"
  /\ rop = ""
  /\ rcid = ""
  /\ rlist = <<>>
  /\ rres = NotRun

TotalSaves == Len(saved["fixo"]) + Len(saved["taskrabbit"])

Init ==
  /\ now = 0
  /\ files = [c \in Companies |-> <<>>]
  /\ dirs = {}
  /\ ret = [op |-> "init", company_id |-> "-"]
  /\ saved = [c \in Companies |-> <<>>]
  /\ wrote = [c \in Companies |-> <<>>]
  /\ old = NoSnapshot
  /\ new = NoSnapshot
  /\ result = NotRun
  /\ AgentIdle
  /\ FetchIdle
  /\ RaceIdle

\* The wall clock advances.
Tick ==
  /\ now < MaxClock
  /\ now' = now + 1
  /\ UNCHANGED <<files, dirs, ret, saved, wrote, dvars, avars, fvars, rvars>>

\* SnapshotStorage.save_snapshot(snapshot)
SaveSnapshot(s) ==
  /\ TotalSaves < MaxSaves
  /\ LET cid == s.company_id
         name == filename(cid, now)
         written == WriteFile(files, cid, name, s)
     IN /\ dirs' = company_dir(dirs, cid)
        /\ files' = cleanup_old_snapshots(written, cid)
        /\ ret' = [op |-> "save_snapshot", company_id |-> cid]
        /\ saved' = [saved EXCEPT ![cid] = Append(@, s)]
        /\ wrote' = [wrote EXCEPT ![cid] =
                       [k \in DOMAIN files'[cid] |->
                          IF k = name THEN Len(saved[cid]) + 1
                          ELSE wrote[cid][k]]]
  /\ UNCHANGED <<now, dvars, avars, fvars, rvars>>

\* SnapshotStorage.get_latest_snapshot(company_id)
GetLatest(cid) ==
  /\ dirs' = company_dir(dirs, cid)
  /\ ret' = [op |-> "get_latest_snapshot", company_id |-> cid]
  /\ UNCHANGED <<now, files, saved, wrote, dvars, avars, fvars, rvars>>

\* SnapshotStorage.get_previous_snapshot(company_id)
GetPrevious(cid) ==
  /\ dirs' = company_dir(dirs, cid)
  /\ ret' = [op |-> "get_previous_snapshot", company_id |-> cid]
  /\ UNCHANGED <<now, files, saved, wrote, dvars, avars, fvars, rvars>>

\* SnapshotStorage.get_all_snapshots(company_id)
GetAll(cid) ==
  /\ dirs' = company_dir(dirs, cid)
  /\ ret' = [op |-> "get_all_snapshots", company_id |-> cid]
  /\ UNCHANGED <<now, files, saved, wrote, dvars, avars, fvars, rvars>>

\* The snapshots a caller can hand to save_snapshot at the current time:
\* built now (no timestamp given, so __post_init__ stamps it with now), or
\* built when the program started and carrying that capture timestamp.
NewSnapshots ==
  {CompanySnapshot(c, ts, sv, <<>>, <<>>, <<>>, <<>>, <<>>, now) :
     c \in Companies, ts \in {NoTimestamp, 0}, sv \in ServiceLists}

Next ==
  \/ Tick
  \/ \E s \in NewSnapshots : SaveSnapshot(s)
  \/ \E c \in Companies : GetLatest(c)
  \/ \E c \in Companies : GetPrevious(c)
  \/ \E c \in Companies : GetAll(c)

Spec == Init /\ [][Next]_vars

\* ------------------------------------------------------- storage properties
Stored(c) == {load(files, c, k, now) : k \in DOMAIN files[c]}

\* C1: save never overwrites.  In every step, a file stored before the step
\* and still stored after it has its original content, and a save for a
\* company writes a file name that was not stored for it before.
C1_SaveNeverOverwrites ==
  [][\A c \in Companies :
       /\ \A k \in (DOMAIN files[c]) \cap (DOMAIN files'[c]) :
            files'[c][k] = files[c][k]
       /\ saved'[c] # saved[c] => filename(c, now) \notin DOMAIN files[c]]_vars

\* C2: retention.  Once more than MaxPerCompany snapshots were saved for a
\* company, get_all_snapshots returns exactly the MaxPerCompany most recently
\* saved ones, newest first.
C2_Retention ==
  \A c \in Companies :
    LET n == Len(saved[c]) IN
    n > MaxPerCompany =>
      get_all_snapshots(files, c, now) =
        [i \in 1..MaxPerCompany |-> saved[c][n - i + 1]]

\* C3: get_latest_snapshot returns a stored snapshot whose own timestamp
\* field is the greatest among the stored snapshots of the company, and
\* returns None exactly when nothing is stored for the company.
C3_LatestGreatestTimestamp ==
  \A c \in Companies :
    LET l == get_latest_snapshot(files, c, now) IN
    IF DOMAIN files[c] = {} THEN l = NoSnapshot
    ELSE /\ l \in Stored(c)
         /\ \A x \in Stored(c) : x.timestamp <= l.timestamp

\* C4: tie-break.  When the two snapshots saved last for a company carry the
\* same capture timestamp (and retention keeps at least two), both are stored
\* and get_all_snapshots lists the later-saved one before the earlier one.
C4_TieBreak ==
  \A c \in Companies :
    LET n == Len(saved[c])
        a == get_all_snapshots(files, c, now) IN
    (MaxPerCompany >= 2 /\ n >= 2
       /\ saved[c][n].timestamp = saved[c][n - 1].timestamp) =>
      /\ Len(a) >= 2
      /\ a[1] = saved[c][n]
      /\ a[2] = saved[c][n - 1]

\* C5: get_previous_snapshot returns None exactly when fewer than two
\* snapshots are stored; otherwise it returns the stored snapshot that
\* exactly one other stored snapshot (the latest) was saved after.
C5_Previous ==
  \A c \in Companies :
    LET p == get_previous_snapshot(files, c, now)
        K == DOMAIN files[c] IN
    /\ p = NoSnapshot <=> Cardinality(K) < 2
    /\ Cardinality(K) >= 2 =>
         \E k \in K :
           /\ p = load(files, c, k, now)
           /\ p = saved[c][wrote[c][k]]
           /\ Cardinality({j \in K : wrote[c][j] > wrote[c][k]}) = 1
           /\ \E j \in K : /\ wrote[c][j] > wrote[c][k]
                           /\ get_latest_snapshot(files, c, now) =
                                load(files, c, j, now)

C5_Witness ==
  \E c \in Companies :
    /\ ret = [op |-> "get_previous_snapshot", company_id |-> c]
    /\ Len(saved[c]) > MaxPerCompany
    /\ get_previous_snapshot(files, c, now) # NoSnapshot
    /\ get_previous_snapshot(files, c, now) #
         get_latest_snapshot(files, c, now)

\* C6: get_all_snapshots lists every stored snapshot of the company exactly
\* once, most recently saved first; its first element is
\* get_latest_snapshot and its second is get_previous_snapshot.
C6_AllNewestFirst ==
  \A c \in Companies :
    LET a == get_all_snapshots(files, c, now)
        K == DOMAIN files[c] IN
    /\ Len(a) = Cardinality(K)
    /\ \E f \in [1..Len(a) -> K] :
         /\ \A i, j \in 1..Len(a) : i # j => f[i] # f[j]
         /\ \A i \in 1..Len(a) : a[i] = load(files, c, f[i], now)
         /\ \A i, j \in 1..Len(a) : i < j => wrote[c][f[i]] > wrote[c][f[j]]
    /\ get_latest_snapshot(files, c, now) =
         (IF Len(a) >= 1 THEN a[1] ELSE NoSnapshot)
    /\ get_previous_snapshot(files, c, now) =
         (IF Len(a) >= 2 THEN a[2] ELSE NoSnapshot)

C6_Witness ==
  \E c \in Companies :
    /\ ret = [op |-> "get_all_snapshots", company_id |-> c]
    /\ Len(get_all_snapshots(files, c, now)) >= 2
    /\ Len(saved[c]) > Len(get_all_snapshots(files, c, now))

\* C7: get_latest_snapshot is a pure read.  A step that ends with
\* get_latest_snapshot as the operation that ran last leaves the stored
\* files and the set of existing company directories as they were.
C7_LatestPureRead ==
  [][ret'.op = "get_latest_snapshot" => (files' = files /\ dirs' = dirs)]_vars

\* C28: read-your-writes.  Right after save_snapshot(s) has returned, with
\* its pruning done, get_latest_snapshot of the company of s returns a
\* snapshot equal to s.
C28_ReadYourWrites ==
  [][(saved' # saved) =>
       LET cid == ret'.company_id
       IN /\ ret'.op = "save_snapshot"
          /\ get_latest_snapshot(files', cid, now') =
               saved'[cid][Len(saved'[cid])]]_vars

C28_Witness ==
  /\ ret.op = "save_snapshot"
  /\ Len(saved[ret.company_id]) = MaxPerCompany + 1
  /\ Cardinality(glob(files, ret.company_id)) = MaxPerCompany
  /\ get_latest_snapshot(files, ret.company_id, now) =
       saved[ret.company_id][MaxPerCompany + 1]

\* C29: cross-entity frame.  A save_snapshot for one company leaves the
\* stored files of every other company as they were, and with them the
\* results of latest, previous and all for that company.
C29_CrossEntityFrame ==
  [][(saved' # saved) =>
       \A b \in Companies \ {ret'.company_id} :
         /\ saved'[b] = saved[b]
         /\ files'[b] = files[b]
         /\ get_latest_snapshot(files', b, now') =
              get_latest_snapshot(files, b, now)
         /\ get_previous_snapshot(files', b, now') =
              get_previous_snapshot(files, b, now)
         /\ get_all_snapshots(files', b, now') =
              get_all_snapshots(files, b, now)]_vars

C29_Witness ==
  /\ ret.op = "save_snapshot"
  /\ \E b \in Companies \ {ret.company_id} :
       /\ Cardinality(glob(files, b)) = MaxPerCompany
       /\ Len(saved[ret.company_id]) >= 1

\* ------------------------------------------------- detector specification
\* Input sets of the detector.  Hashes are hex digests, here 17 characters
\* long so that the 16-character preview drops something.
ServiceNames == {"A", "B"}
PriceLabels == {"basic", "pro"}
Prices == {"10€", "12€"}
LocationLists == {<<>>, <<"Lisboa">>, <<"Porto">>}
PromotionLists == {<<>>, <<"-10%">>, <<"-20%">>}
PageNames == {"home", "about"}
H1 == [i \in 1..17 |-> IF i = 17 THEN "1" ELSE "a"]
H2 == [i \in 1..17 |-> IF i = 17 THEN "2" ELSE "a"]
HashValues == {<<>>, H1, H2}

SeqsUpTo(S, n) == UNION {[1..k -> S] : k \in 0..n}
Dicts(K, V) == UNION {[D -> V] : D \in SUBSET K}

ServicesDomain == SeqsUpTo(ServiceNames, MaxLen)
PricingDomain == Dicts(PriceLabels, Prices)
BusinessDomain ==
  {<<>>,
   [about_text_hash |-> <<>>, about_text_preview |-> ""],
   [about_text_hash |-> H1, about_text_preview |-> "sobre 1"],
   [about_text_hash |-> H2, about_text_preview |-> "sobre 2"]}
RawPagesDomain == Dicts(PageNames, HashValues)

Fields == {"services", "pricing", "locations", "promotions",
           "business_info", "raw_pages"}

FieldDomain(f) ==
  CASE f = "services" -> ServicesDomain
    [] f = "pricing" -> PricingDomain
    [] f = "locations" -> LocationLists
    [] f = "promotions" -> PromotionLists
    [] f = "business_info" -> BusinessDomain
    [] f = "raw_pages" -> RawPagesDomain

\* A snapshot of company c captured at tick 0 with every collection empty.
EmptySnapshot(c) ==
  CompanySnapshot(c, 0, <<>>, <<>>, <<>>, <<>>, <<>>, <<>>, 0)

\* Partial snapshots: at most two of the collections carry data.
SnapshotPool ==
  UNION {UNION {UNION {
    {[[EmptySnapshot(c) EXCEPT ![f] = v] EXCEPT ![g] = w] :
       v \in FieldDomain(f), w \in FieldDomain(g)} :
    g \in Fields} : f \in Fields} : c \in Companies}

InitDiff ==
  /\ now = 0
  /\ files = [c \in Companies |-> <<>>]
  /\ dirs = {}
  /\ ret = [op |-> "init", company_id |-> "-"]
  /\ saved = [c \in Companies |-> <<>>]
  /\ wrote = [c \in Companies |-> <<>>]
  /\ old \in SnapshotPool
  /\ new \in SnapshotPool
  /\ result = NotRun
  /\ AgentIdle
  /\ FetchIdle
  /\ RaceIdle

\* ChangeDetector.detect_changes(old, new)
DetectChanges ==
  /\ result = NotRun
  /\ result' \in detect_changes(old, new, now)
  /\ UNCHANGED <<svars, old, new, avars, fvars, rvars>>

NextDiff == DetectChanges

SpecDiff == InitDiff /\ [][NextDiff]_vars

\* ------------------------------------------------------ detector properties
Ran == "pending" \notin DOMAIN result

\* The exception of change_detector.py line 21 is the error the design
\* documents call MismatchedEntityError.
MismatchedEntityError == ValueError

\* C8: comparing a snapshot with itself returns an empty list of changes.
C8_SelfDiffEmpty ==
  (Ran /\ old = new) => result = Return(<<>>)

C8_Witness ==
  /\ Ran /\ old = new /\ result = Return(<<>>)
  /\ old.services # <<>>
  /\ DOMAIN old.pricing # {}

\* C9: detect_changes fails with the mismatched-entity error and returns no
\* changes whenever the two company ids differ, and does not fail whenever
\* they are equal.
C9_MismatchedEntity ==
  Ran =>
    /\ old.company_id # new.company_id => result = Raise(MismatchedEntityError)
    /\ old.company_id = new.company_id => result.raised = ""

C9_Witness ==
  /\ Ran /\ old.company_id # new.company_id
  /\ result.raised = MismatchedEntityError /\ result.value = <<>>
  /\ set(old.services) # set(new.services)

\* What a change affects: the service, location or promotion named by its
\* value, the price label or page named in its description, or the about text.
Item(c) ==
  IF c.change_type \in {PRICE_CHANGED, WEBSITE_CONTENT_CHANGE}
  THEN c.description[2]
  ELSE IF c.change_type = BUSINESS_MODEL_CHANGE THEN "about"
  ELSE IF c.old_value = None THEN c.new_value[1] ELSE c.old_value[1]

View(c) ==
  [company_id |-> c.company_id, category |-> c.category, item |-> Item(c),
   change_type |-> c.change_type, old_value |-> c.old_value,
   new_value |-> c.new_value]

Dual(t) ==
  CASE t = SERVICE_ADDED -> SERVICE_REMOVED
    [] t = SERVICE_REMOVED -> SERVICE_ADDED
    [] t = LOCATION_ADDED -> LOCATION_REMOVED
    [] t = LOCATION_REMOVED -> LOCATION_ADDED
    [] t = PROMOTION_NEW -> PROMOTION_EXPIRED
    [] t = PROMOTION_EXPIRED -> PROMOTION_NEW
    [] OTHER -> t

Swapped(v) ==
  [v EXCEPT !.change_type = Dual(v.change_type),
            !.old_value = v.new_value, !.new_value = v.old_value]

\* C10: direction swap.  The changes of detect_changes(new, old) are those
\* of detect_changes(old, new) on the same items, each added-type change
\* replaced by the matching removed-type change (and conversely) and
\* old_value and new_value exchanged.
C10_DirectionSwap ==
  (Ran /\ result.raised = "") =>
    \A r \in detect_changes(new, old, now) :
      /\ r.raised = ""
      /\ Len(r.value) = Len(result.value)
      /\ {View(c) : c \in set(r.value)} =
           {Swapped(View(c)) : c \in set(result.value)}

C10_Witness ==
  /\ Ran /\ result.raised = ""
  /\ \E i \in 1..Len(result.value) :
       result.value[i].change_type = SERVICE_ADDED
  /\ \E i \in 1..Len(result.value) :
       result.value[i].change_type = SERVICE_REMOVED
  /\ \E i \in 1..Len(result.value) :
       /\ result.value[i].change_type = PRICE_CHANGED
       /\ result.value[i].old_value # None
       /\ result.value[i].new_value # None

\* Position of a change in the emission order: services, pricing, locations,
\* promotions, business narrative, raw pages.
Rank(c) ==
  CASE c.change_type \in {SERVICE_ADDED, SERVICE_REMOVED} -> 1
    [] c.change_type = PRICE_CHANGED -> 2
    [] c.change_type \in {LOCATION_ADDED, LOCATION_REMOVED} -> 3
    [] c.change_type \in {PROMOTION_NEW, PROMOTION_EXPIRED} -> 4
    [] c.change_type = BUSINESS_MODEL_CHANGE -> 5
    [] c.change_type = WEBSITE_CONTENT_CHANGE -> 6

\* C11: emission order.  In every returned list, no change of a later
\* category precedes a change of an earlier category.
C11_EmissionOrder ==
  (Ran /\ result.raised = "") =>
    \A i, j \in 1..Len(result.value) :
      i < j => Rank(result.value[i]) <= Rank(result.value[j])

C11_Witness ==
  /\ Ran /\ result.raised = ""
  /\ \E i, j, k \in 1..Len(result.value) :
       /\ i < j /\ j < k
       /\ Rank(result.value[i]) = 1
       /\ Rank(result.value[j]) = 2
       /\ Rank(result.value[k]) = 3

\* The positions of the returned list holding a change of the given type
\* with the given values.
Hits(t, sev, ov, nv) ==
  {i \in 1..Len(result.value) :
     /\ result.value[i].change_type = t
     /\ result.value[i].severity = sev
     /\ result.value[i].old_value = ov
     /\ result.value[i].new_value = nv}

OfType(T) == {i \in 1..Len(result.value) : result.value[i].change_type \in T}

\* Symmetric set difference rule shared by services, locations, promotions:
\* one added-type change per name of news \ olds, one removed-type change
\* per name of olds \ news, and no further change of these two types.
SetDifferenceRule(olds, news, addT, addSev, remT, remSev) ==
  /\ \A x \in news \ olds : Cardinality(Hits(addT, addSev, None, Str(x))) = 1
  /\ \A x \in olds \ news : Cardinality(Hits(remT, remSev, Str(x), None)) = 1
  /\ Cardinality(OfType({addT, remT})) =
       Cardinality(news \ olds) + Cardinality(olds \ news)

Elements(list) == {list[i] : i \in DOMAIN list}

\* C12: services.  Exactly one service_added (high, new_value the name) per
\* name in new but not in old, exactly one service_removed (high, old_value
\* the name) per name in old but not in new, and no other service change,
\* whatever the order and the duplicates of the two lists.
C12_Services ==
  (Ran /\ result.raised = "") =>
    /\ SetDifferenceRule(Elements(old.services), Elements(new.services),
                         SERVICE_ADDED, "high", SERVICE_REMOVED, "high")
    /\ \A i \in OfType({SERVICE_ADDED, SERVICE_REMOVED}) :
         result.value[i].category = "services"

C12_Witness ==
  /\ Ran /\ result.raised = ""
  /\ Len(new.services) = 2 /\ new.services[1] = new.services[2]
  /\ Len(old.services) = 2 /\ old.services[1] = old.services[2]
  /\ Cardinality(OfType({SERVICE_ADDED})) = 1
  /\ Cardinality(OfType({SERVICE_REMOVED})) = 1

\* The positions holding a price_changed about the given label.
PriceHits(key) ==
  {i \in OfType({PRICE_CHANGED}) : result.value[i].description[2] = key}

\* C13: pricing.  Per label of either mapping: one price_changed (medium,
\* new_value only) when missing in old, one (medium, old_value only) when
\* missing in new, one (high, both values) when the two prices differ, none
\* when they are equal; no price_changed about any other label.
C13_Pricing ==
  (Ran /\ result.raised = "") =>
    /\ \A key \in (DOMAIN old.pricing) \cup (DOMAIN new.pricing) :
         LET inOld == key \in DOMAIN old.pricing
             inNew == key \in DOMAIN new.pricing
             expected ==
               IF ~inOld
               THEN Hits(PRICE_CHANGED, "medium", None, Str(new.pricing[key]))
               ELSE IF ~inNew
               THEN Hits(PRICE_CHANGED, "medium", Str(old.pricing[key]), None)
               ELSE IF old.pricing[key] # new.pricing[key]
               THEN Hits(PRICE_CHANGED, "high", Str(old.pricing[key]),
                         Str(new.pricing[key]))
               ELSE {}
         IN /\ PriceHits(key) \subseteq expected
            /\ Cardinality(PriceHits(key)) =
                 (IF inOld /\ inNew /\ old.pricing[key] = new.pricing[key]
                  THEN 0 ELSE 1)
    /\ \A i \in OfType({PRICE_CHANGED}) :
         /\ result.value[i].description[2] \in
              (DOMAIN old.pricing) \cup (DOMAIN new.pricing)
         /\ result.value[i].category = "pricing"

C13_Witness ==
  /\ Ran /\ result.raised = ""
  /\ \E a, b \in PriceLabels :
       /\ a \in DOMAIN old.pricing /\ a \in DOMAIN new.pricing
       /\ old.pricing[a] # new.pricing[a]
       /\ b \in DOMAIN old.pricing /\ b \notin DOMAIN new.pricing
       /\ Cardinality(PriceHits(a)) = 1 /\ Cardinality(PriceHits(b)) = 1

\* C14: locations.  One location_added (high) per location in new but not in
\* old, one location_removed (medium) per location in old but not in new,
\* and no other location change.
C14_Locations ==
  (Ran /\ result.raised = "") =>
    /\ SetDifferenceRule(Elements(old.locations), Elements(new.locations),
                         LOCATION_ADDED, "high", LOCATION_REMOVED, "medium")
    /\ \A i \in OfType({LOCATION_ADDED, LOCATION_REMOVED}) :
         result.value[i].category = "locations"

C14_Witness ==
  /\ Ran /\ result.raised = ""
  /\ old.locations # <<>> /\ new.locations # <<>>
  /\ Cardinality(OfType({LOCATION_ADDED})) = 1
  /\ Cardinality(OfType({LOCATION_REMOVED})) = 1

\* C15: promotions.  One promotion_new (medium) per promotion in new but not
\* in old, one promotion_expired (info) per promotion in old but not in new,
\* and no other promotion change.
C15_Promotions ==
  (Ran /\ result.raised = "") =>
    /\ SetDifferenceRule(Elements(old.promotions), Elements(new.promotions),
                         PROMOTION_NEW, "medium", PROMOTION_EXPIRED, "info")
    /\ \A i \in OfType({PROMOTION_NEW, PROMOTION_EXPIRED}) :
         result.value[i].category = "promotions"

C15_Witness ==
  /\ Ran /\ result.raised = ""
  /\ old.promotions # <<>> /\ new.promotions # <<>>
  /\ Cardinality(OfType({PROMOTION_NEW})) = 1
  /\ Cardinality(OfType({PROMOTION_EXPIRED})) = 1

\* C16: business narrative.  One business_model_change (medium, old and new
\* value the two previews) exactly when about_text_hash is non-empty on both
\* sides and differs; none when either hash is empty or missing.
C16_BusinessNarrative ==
  (Ran /\ result.raised = "") =>
    LET oldHash == IF "about_text_hash" \in DOMAIN old.business_info
                   THEN old.business_info["about_text_hash"] ELSE <<>>
        newHash == IF "about_text_hash" \in DOMAIN new.business_info
                   THEN new.business_info["about_text_hash"] ELSE <<>>
        oldPreview == IF "about_text_preview" \in DOMAIN old.business_info
                      THEN old.business_info["about_text_preview"] ELSE ""
        newPreview == IF "about_text_preview" \in DOMAIN new.business_info
                      THEN new.business_info["about_text_preview"] ELSE ""
    IN IF Len(oldHash) > 0 /\ Len(newHash) > 0 /\ oldHash # newHash
       THEN /\ Cardinality(OfType({BUSINESS_MODEL_CHANGE})) = 1
            /\ OfType({BUSINESS_MODEL_CHANGE}) =
                 Hits(BUSINESS_MODEL_CHANGE, "medium", Str(oldPreview),
                      Str(newPreview))
       ELSE OfType({BUSINESS_MODEL_CHANGE}) = {}

C16_Witness ==
  /\ Ran /\ result.raised = ""
  /\ Cardinality(OfType({BUSINESS_MODEL_CHANGE})) = 1
  /\ old.business_info # <<>> /\ new.business_info # <<>>

\* The new snapshot is partial with every page omitted: no page hash was
\* recorded and every collection extracted from a page is empty.
AllPagesOmitted(n) ==
  /\ n.raw_pages = <<>>
  /\ n.services = <<>> /\ n.locations = <<>>
  /\ n.promotions = <<>> /\ n.pricing = <<>>

\* C21: absence is not a change.  When the new snapshot is partial (its
\* pages were omitted, so services, locations, promotions and pricing are
\* empty) while the old snapshot has data for such a field, no change is
\* emitted for that field.
C21_AbsenceNotChange ==
  (Ran /\ result.raised = "" /\ AllPagesOmitted(new)) =>
    /\ old.services # <<>> => OfType({SERVICE_ADDED, SERVICE_REMOVED}) = {}
    /\ old.locations # <<>> => OfType({LOCATION_ADDED, LOCATION_REMOVED}) = {}
    /\ old.promotions # <<>> => OfType({PROMOTION_NEW, PROMOTION_EXPIRED}) = {}
    /\ old.pricing # <<>> => OfType({PRICE_CHANGED}) = {}

\* The category each change type belongs to.
CategoryOf(t) ==
  CASE t \in {SERVICE_ADDED, SERVICE_REMOVED} -> "services"
    [] t = PRICE_CHANGED -> "pricing"
    [] t \in {LOCATION_ADDED, LOCATION_REMOVED} -> "locations"
    [] t \in {PROMOTION_NEW, PROMOTION_EXPIRED} -> "promotions"
    [] t \in {BUSINESS_MODEL_CHANGE, WEBSITE_CONTENT_CHANGE} -> "business_model"
    [] OTHER -> "-"

Categories == {"services", "pricing", "locations", "promotions", "business_model"}

\* C22: closed category set.  Every returned Change has a category of the
\* five, and it is the one its change type determines.
C22_CategoryClosed ==
  (Ran /\ result.raised = "") =>
    \A i \in 1..Len(result.value) :
      /\ result.value[i].category \in Categories
      /\ result.value[i].category = CategoryOf(result.value[i].change_type)

C22_Witness ==
  /\ Ran /\ result.raised = ""
  /\ OfType({WEBSITE_CONTENT_CHANGE}) # {}
  /\ OfType({SERVICE_ADDED, SERVICE_REMOVED, PRICE_CHANGED, LOCATION_ADDED,
             LOCATION_REMOVED, PROMOTION_NEW, PROMOTION_EXPIRED,
             BUSINESS_MODEL_CHANGE}) # {}

\* The positions holding a website_content_change about the given page.
PageHits(page) ==
  {i \in OfType({WEBSITE_CONTENT_CHANGE}) : result.value[i].description[2] = page}

\* C23: raw pages.  Per page name of either side: one website_content_change
\* (info) exactly when the page has a non-empty hash on both sides and the
\* two differ; none for a page on one side only or with an empty hash; no
\* website_content_change about any other page.
C23_RawPages ==
  (Ran /\ result.raised = "") =>
    /\ \A page \in (DOMAIN old.raw_pages) \cup (DOMAIN new.raw_pages) :
         LET both == /\ page \in DOMAIN old.raw_pages
                     /\ page \in DOMAIN new.raw_pages
         IN IF both /\ Len(old.raw_pages[page]) > 0
                    /\ Len(new.raw_pages[page]) > 0
                    /\ old.raw_pages[page] # new.raw_pages[page]
            THEN /\ Cardinality(PageHits(page)) = 1
                 /\ \A i \in PageHits(page) : result.value[i].severity = "info"
            ELSE PageHits(page) = {}
    /\ \A i \in OfType({WEBSITE_CONTENT_CHANGE}) :
         result.value[i].description[2] \in
           (DOMAIN old.raw_pages) \cup (DOMAIN new.raw_pages)

C23_Witness ==
  /\ Ran /\ result.raised = ""
  /\ \E p, q \in PageNames :
       /\ Cardinality(PageHits(p)) = 1
       /\ q \in DOMAIN old.raw_pages /\ q \notin DOMAIN new.raw_pages
       /\ PageHits(q) = {}

\* ------------------------------------------------------ agent specification
\* The keys of the SCRAPERS registry that the model scans.
SCRAPERS == Companies

\* A company id a caller can pass for which SCRAPERS has no entry.
Unregistered == "acme"

RequestIds == SCRAPERS \cup {Unregistered}

\* The company_ids argument: lists of at most MaxBatch distinct ids.
Batches ==
  {b \in UNION {[1..n -> RequestIds] : n \in 0..MaxBatch} :
     \A i, j \in 1..Len(b) : i # j => b[i] # b[j]}

\* The service lists a scrape can extract.
ScrapedServices == {<<"A">>, <<"B">>}

\* The snapshot an earlier run captured and saved at tick 0.
Earlier(c) ==
  CompanySnapshot(c, NoTimestamp, <<"A">>, <<>>, <<>>, <<>>, <<>>, <<>>, 0)

\* The content of a file that open(filepath, "w") truncated and whose
\* f.write did not complete.
Corrupt == [corrupt |-> TRUE]

\* CompanySnapshot.load of such a file: json.loads raises.
load_raises(fs, cid, name) == fs[cid][name] = Corrupt

\* open(filepath, "w") without the write that follows it.
Truncate(fs, cid, name) ==
  [fs EXCEPT ![cid] =
     [k \in (DOMAIN fs[cid]) \cup {name} |->
        IF k = name THEN Corrupt ELSE fs[cid][k]]]

\* d[key] = value
Put(d, key, value) ==
  [k \in (DOMAIN d) \cup {key} |-> IF k = key THEN value ELSE d[k]]

\* What an earlier run left in the directory of each company: nothing, one
\* snapshot file, or one truncated file.
Leftovers == {"none", "stored", "truncated"}

InitScan ==
  /\ now = 0
  /\ \E h \in [Companies -> Leftovers] :
       /\ files = [c \in Companies |->
                     IF h[c] = "none" THEN <<>>
                     ELSE [k \in {filename(c, 0)} |->
                             IF h[c] = "stored" THEN to_json(Earlier(c))
                             ELSE Corrupt]]
       /\ dirs = {c \in Companies : h[c] # "none"}
       /\ saved = [c \in Companies |->
                     IF h[c] = "none" THEN <<>> ELSE <<Earlier(c)>>]
       /\ wrote = [c \in Companies |->
                     IF h[c] = "none" THEN <<>>
                     ELSE [k \in {filename(c, 0)} |-> 1]]
  /\ ret = [op |-> "init", company_id |-> "-"]
  /\ old = NoSnapshot
  /\ new = NoSnapshot
  /\ result = NotRun
  /\ AgentIdle
  /\ FetchIdle
  /\ RaceIdle

\* One more entry of the call history.
Call(cid, callee, outcome) == calls' = Append(calls, <<cid, callee, outcome>>)

\* The for loop of run_scan moves to the next company id, or ends.
NextCompany ==
  /\ idx' = idx + 1
  /\ pc' = IF idx + 1 > Len(batch) THEN "report" ELSE "lookup"
  /\ previous' = NoSnapshot
  /\ new_snapshot' = NoSnapshot

\* Variant: no try/except around _scan_company, the exception leaves run_scan.
HandleError_Abort(cid) ==
  /\ pc' = "raised"
  /\ UNCHANGED <<idx, previous, new_snapshot, all_changes, current_snapshots, errlog>>

\* Variant: the handler only logs.
HandleError_NoEntry(cid) ==
  /\ errlog' = Append(errlog, cid)
  /\ NextCompany
  /\ UNCHANGED <<all_changes, current_snapshots>>

\* Variant: the handler only stores the empty list.
HandleError_NoLog(cid) ==
  /\ all_changes' = Put(all_changes, cid, <<>>)
  /\ NextCompany
  /\ UNCHANGED <<current_snapshots, errlog>>

\* except Exception as e: logger.error(...); all_changes[company_id] = []
HandleError(cid) ==
  /\ errlog' = Append(errlog, cid)
  /\ all_changes' = Put(all_changes, cid, <<>>)
  /\ NextCompany
  /\ UNCHANGED current_snapshots

\* run_scan(company_ids): the two dicts start empty and the loop starts.
StartScan(b) ==
  /\ pc = "idle"
  /\ batch' = b
  /\ idx' = 1
  /\ pc' = IF Len(b) = 0 THEN "report" ELSE "lookup"
  /\ all_changes' = <<>>
  /\ current_snapshots' = <<>>
  /\ UNCHANGED <<svars, dvars, fvars, rvars, previous, new_snapshot, errlog, calls>>

\* _scan_company: SCRAPERS.get(company_id); without a scraper it returns
\* ([], None) and run_scan stores the empty list.
ScanLookup ==
  /\ pc = "lookup"
  /\ LET cid == batch[idx]
     IN IF cid \in SCRAPERS
        THEN /\ pc' = "latest"
             /\ Call(cid, "SCRAPERS.get", "found")
             /\ UNCHANGED <<idx, previous, new_snapshot, all_changes, current_snapshots, errlog>>
        ELSE /\ all_changes' = Put(all_changes, cid, <<>>)
             /\ Call(cid, "SCRAPERS.get", "none")
             /\ NextCompany
             /\ UNCHANGED <<current_snapshots, errlog>>
  /\ UNCHANGED <<svars, dvars, fvars, rvars, batch>>

\* _scan_company: previous = self.storage.get_latest_snapshot(company_id)
ScanLatest ==
  /\ pc = "latest"
  /\ LET cid == batch[idx]
         fl == sorted_reverse(glob(files, cid))
     IN /\ dirs' = company_dir(dirs, cid)
        /\ ret' = [op |-> "get_latest_snapshot", company_id |-> cid]
        /\ IF Len(fl) > 0 /\ load_raises(files, cid, fl[1])
           THEN /\ Call(cid, "get_latest_snapshot", "error")
                /\ HandleError(cid)
           ELSE /\ previous' = get_latest_snapshot(files, cid, now)
                /\ pc' = "scrape"
                /\ Call(cid, "get_latest_snapshot",
                        IF Len(fl) = 0 THEN "none" ELSE "found")
                /\ UNCHANGED <<idx, new_snapshot, all_changes, current_snapshots, errlog>>
  /\ UNCHANGED <<now, files, saved, wrote, dvars, fvars, rvars, batch>>

\* Variant: the snapshot is diffed right after the scrape and never saved.
ScanScrape_ThenDetect ==
  /\ pc = "scrape"
  /\ LET cid == batch[idx]
     IN \/ /\ Call(cid, "scrape", "error")
           /\ HandleError(cid)
        \/ /\ \E sv \in ScrapedServices :
                new_snapshot' = CompanySnapshot(cid, NoTimestamp, sv, <<>>,
                                                <<>>, <<>>, <<>>, <<>>, now)
           /\ pc' = "detect"
           /\ Call(cid, "scrape", "ok")
           /\ UNCHANGED <<idx, previous, all_changes, current_snapshots, errlog>>
  /\ UNCHANGED <<svars, dvars, fvars, rvars, batch>>

\* Variant: a scrape that raises first writes what it has as a truncated file.
ScanScrape_WritesPartial ==
  /\ pc = "scrape"
  /\ LET cid == batch[idx]
     IN \/ /\ Call(cid, "scrape", "error")
           /\ files' = Truncate(files, cid, filename(cid, now))
           /\ HandleError(cid)
        \/ /\ \E sv \in ScrapedServices :
                new_snapshot' = CompanySnapshot(cid, NoTimestamp, sv, <<>>,
                                                <<>>, <<>>, <<>>, <<>>, now)
           /\ pc' = "save"
           /\ Call(cid, "scrape", "ok")
           /\ UNCHANGED <<files, idx, previous, all_changes, current_snapshots, errlog>>
  /\ UNCHANGED <<now, dirs, ret, saved, wrote, dvars, fvars, rvars, batch>>

\* _scan_company: new_snapshot = scraper.scrape().  The scrape raises, or
\* builds a snapshot of the company stamped with the current time.
ScanScrape ==
  /\ pc = "scrape"
  /\ LET cid == batch[idx]
     IN \/ /\ Call(cid, "scrape", "error")
           /\ HandleError(cid)
        \/ /\ \E sv \in ScrapedServices :
                new_snapshot' = CompanySnapshot(cid, NoTimestamp, sv, <<>>,
                                                <<>>, <<>>, <<>>, <<>>, now)
           /\ pc' = "save"
           /\ Call(cid, "scrape", "ok")
           /\ UNCHANGED <<idx, previous, all_changes, current_snapshots, errlog>>
  /\ UNCHANGED <<svars, dvars, fvars, rvars, batch>>

\* _scan_company: self.storage.save_snapshot(new_snapshot).  The save
\* completes, or open raises, or the write raises after open truncated the
\* file (the cleanup is then not reached).
ScanSave ==
  /\ pc = "save"
  /\ LET cid == new_snapshot.company_id
         name == filename(cid, now)
     IN /\ dirs' = company_dir(dirs, cid)
        /\ ret' = [op |-> "save_snapshot", company_id |-> cid]
        /\ saved' = [saved EXCEPT ![cid] = Append(@, new_snapshot)]
        /\ \/ /\ files' = cleanup_old_snapshots(
                            WriteFile(files, cid, name, new_snapshot), cid)
              /\ wrote' = [wrote EXCEPT ![cid] =
                             [k \in DOMAIN files'[cid] |->
                                IF k = name THEN Len(saved[cid]) + 1
                                ELSE wrote[cid][k]]]
              /\ pc' = "detect"
              /\ Call(cid, "save_snapshot", "ok")
              /\ UNCHANGED <<idx, previous, new_snapshot, all_changes, current_snapshots, errlog>>
           \/ /\ UNCHANGED <<files, wrote>>
              /\ Call(cid, "save_snapshot", "error")
              /\ HandleError(cid)
           \/ /\ files' = Truncate(files, cid, name)
              /\ wrote' = [wrote EXCEPT ![cid] =
                             [k \in DOMAIN files'[cid] |->
                                IF k = name THEN Len(saved[cid]) + 1
                                ELSE wrote[cid][k]]]
              /\ Call(cid, "save_snapshot", "error")
              /\ HandleError(cid)
  /\ UNCHANGED <<now, dvars, fvars, rvars, batch>>

\* Variant: without a previous snapshot the new one is compared with an
\* empty snapshot.
scan_changes_AgainstEmpty(prev, snap, clock) ==
  detect_changes(IF prev # NoSnapshot THEN prev
                 ELSE EmptySnapshot(snap.company_id), snap, clock)

\* _scan_company: changes = [] unless `if previous:` holds, then
\* changes = self.detector.detect_changes(previous, new_snapshot).
scan_changes(prev, snap, clock) ==
  IF prev # NoSnapshot THEN detect_changes(prev, snap, clock)
  ELSE {Return(<<>>)}

\* _scan_company: the detection and the return to run_scan, which stores
\* the changes and the snapshot.  A call of the detector can raise.
ScanDetect ==
  /\ pc = "detect"
  /\ LET cid == batch[idx]
         invoked == previous # NoSnapshot
         outcomes == scan_changes(previous, new_snapshot, now)
                       \cup (IF invoked THEN {Raise("Exception")} ELSE {})
     IN \E out \in outcomes :
          IF out.raised # ""
          THEN /\ Call(cid, "detect_changes", "error")
               /\ HandleError(cid)
          ELSE /\ all_changes' = Put(all_changes, cid, out.value)
               /\ current_snapshots' = Put(current_snapshots, cid, new_snapshot)
               /\ calls' = IF invoked
                           THEN Append(calls, <<cid, "detect_changes", "ok">>)
                           ELSE calls
               /\ NextCompany
               /\ UNCHANGED errlog
  /\ UNCHANGED <<svars, dvars, fvars, rvars, batch>>

\* run_scan after the loop: the report is generated and saved, then
\* all_changes is returned; writing the report files can raise.
ScanReport ==
  /\ pc = "report"
  /\ \/ pc' = "returned" /\ Call("*", "save_report", "ok")
     \/ pc' = "raised" /\ Call("*", "save_report", "error")
  /\ UNCHANGED <<svars, dvars, fvars, rvars, batch, idx, previous, new_snapshot, all_changes, current_snapshots, errlog>>

\* The wall clock advances at any point of a scan; a scan is followed through
\* the second it began in and the one after.
ScanTick ==
  /\ now < MaxScanClock
  /\ Tick

NextScan ==
  \/ ScanTick
  \/ \E b \in Batches : StartScan(b)
  \/ ScanLookup
  \/ ScanLatest
  \/ ScanScrape
  \/ ScanSave
  \/ ScanDetect
  \/ ScanReport

SpecScan == InitScan /\ [][NextScan]_vars

\* ReportGenerator.generate_json_report: the "companies" object.
json_report ==
  [cid \in DOMAIN all_changes |->
     [changes_count |-> Len(all_changes[cid]),
      changes |-> all_changes[cid],
      current_snapshot |-> IF cid \in DOMAIN current_snapshots
                           THEN to_json(current_snapshots[cid]) ELSE None]]

\* ----------------------------------------------------------- agent properties
Called(cid, callee, outcome) ==
  \E i \in 1..Len(calls) : calls[i] = <<cid, callee, outcome>>

\* A call made for the company raised.
Failed(cid) ==
  \E i \in 1..Len(calls) : calls[i][1] = cid /\ calls[i][3] = "error"

LoopDone == pc \in {"report", "returned", "raised"}

\* C17: cross-entity isolation.  Once the loop of run_scan is over, every
\* requested company with a scraper had its pipeline started, and every one
\* whose own calls did not raise was scraped, saved and (when a previous
\* snapshot existed) diffed, whatever raised for the other companies of the
\* batch and wherever they stand in it.
C17_Isolation ==
  LoopDone =>
    \A y \in Elements(batch) \cap SCRAPERS :
      /\ \E o \in {"none", "found", "error"} :
           Called(y, "get_latest_snapshot", o)
      /\ ~Failed(y) =>
           /\ Called(y, "scrape", "ok")
           /\ Called(y, "save_snapshot", "ok")
           /\ y \in DOMAIN current_snapshots
           /\ Called(y, "get_latest_snapshot", "found") =>
                Called(y, "detect_changes", "ok")

C17_Witness ==
  /\ pc = "returned"
  /\ Len(batch) = 2
  /\ Called(batch[1], "save_snapshot", "error")
  /\ Called(batch[2], "save_snapshot", "ok")
  /\ Called(batch[2], "detect_changes", "ok")

\* C18: no entity is dropped.  The dict returned by run_scan has a key for
\* every requested id: scanned, failed, or without a scraper.
C18_NoEntityDropped ==
  pc = "returned" => DOMAIN all_changes = Elements(batch)

C18_Witness ==
  /\ pc = "returned"
  /\ \E x, u \in Elements(batch) :
       /\ Failed(x) /\ x \in DOMAIN all_changes
       /\ u \notin SCRAPERS /\ u \in DOMAIN all_changes

\* C19: failures are reported.  In what run_scan puts out (the returned
\* dict, the error log, the JSON report) a company whose pipeline raised has
\* an empty change list, an error log line and no current snapshot, while a
\* company scanned without error has no error log line and has a current
\* snapshot, so the two are told apart even when both have zero changes.
C19_FailureReported ==
  pc = "returned" =>
    \A x \in Elements(batch) \cap SCRAPERS :
      IF Failed(x)
      THEN /\ all_changes[x] = <<>>
           /\ x \in Elements(errlog)
           /\ json_report[x].current_snapshot = None
      ELSE /\ x \notin Elements(errlog)
           /\ json_report[x].current_snapshot # None

C19_Witness ==
  /\ pc = "returned"
  /\ \E x, y \in Elements(batch) :
       /\ Failed(x) /\ all_changes[x] = <<>>
       /\ ~Failed(y) /\ Called(y, "detect_changes", "ok")
       /\ all_changes[y] = <<>>

\* C20: first run.  For a company whose get_latest_snapshot found nothing,
\* the detector is not called and the change list is empty, and when no call
\* raised the new snapshot is in storage.
C20_FirstRun ==
  \A y \in DOMAIN all_changes :
    Called(y, "get_latest_snapshot", "none") =>
      /\ ~Called(y, "detect_changes", "ok")
      /\ ~Called(y, "detect_changes", "error")
      /\ all_changes[y] = <<>>
      /\ ~Failed(y) =>
           /\ Called(y, "save_snapshot", "ok")
           /\ \E name \in glob(files, y) :
                files[y][name] = to_json(current_snapshots[y])

C20_Witness ==
  /\ pc = "returned"
  /\ \E y \in DOMAIN current_snapshots :
       /\ Called(y, "get_latest_snapshot", "none")
       /\ current_snapshots[y].services # <<>>
       /\ all_changes[y] = <<>>

\* Some earlier entry of the call history is the given one.
Before(i, cid, callee, outcome) ==
  \E j \in 1..(i - 1) : calls[j] = <<cid, callee, outcome>>

Stages == {"get_latest_snapshot", "scrape", "save_snapshot", "detect_changes"}

\* C24 as stated: stage order.  Per company: the scrape has completed before
\* save_snapshot is called, save_snapshot (pruning included) has completed
\* before the latest snapshot is queried for the diff, and every diff has
\* completed before the report is rendered.
C24_StageOrder ==
  \A i \in 1..Len(calls) :
    /\ calls[i][2] = "save_snapshot" => Before(i, calls[i][1], "scrape", "ok")
    /\ calls[i][2] = "get_latest_snapshot" =>
         Before(i, calls[i][1], "save_snapshot", "ok")
    /\ calls[i][2] = "save_report" =>
         \A j \in 1..Len(calls) : calls[j][2] \in Stages => j < i

\* C24 amended: the latest snapshot is queried before the scrape; the scrape
\* has completed before save_snapshot is called; save_snapshot (pruning
\* included) has completed before the diff; every diff has completed before
\* the report is rendered.
C24_StageOrderAmended ==
  \A i \in 1..Len(calls) :
    /\ calls[i][2] = "scrape" =>
         \E o \in {"none", "found"} :
           Before(i, calls[i][1], "get_latest_snapshot", o)
    /\ calls[i][2] = "save_snapshot" => Before(i, calls[i][1], "scrape", "ok")
    /\ calls[i][2] = "detect_changes" =>
         Before(i, calls[i][1], "save_snapshot", "ok")
    /\ calls[i][2] = "save_report" =>
         \A j \in 1..Len(calls) : calls[j][2] \in Stages => j < i

C24_Witness ==
  /\ pc = "returned"
  /\ Called("*", "save_report", "ok")
  /\ \E y \in Elements(batch) :
       /\ Called(y, "get_latest_snapshot", "found")
       /\ Called(y, "scrape", "ok")
       /\ Called(y, "save_snapshot", "ok")
       /\ Called(y, "detect_changes", "ok")

\* C26: an abandoned extraction writes nothing.  No step of a pipeline up to
\* and including its scrape changes a stored file of any company, so a
\* pipeline that ends in its scrape leaves every history as it was.
C26_AbandonedWritesNothing ==
  [][(pc \in {"lookup", "latest", "scrape"}) => (files' = files)]_vars

C26_Witness ==
  /\ pc = "returned"
  /\ \E y, z \in Elements(batch) \cap SCRAPERS :
       /\ Called(y, "scrape", "error")
       /\ glob(files, y) # {}
       /\ z # y /\ Called(z, "save_snapshot", "ok")

\* A change list with the detection timestamps and the order left out.
Untimed(list) == {[list[i] EXCEPT !.timestamp = 0] : i \in 1..Len(list)}

\* C30: re-diff consistency.  After a scan that returned, for a company that
\* had a stored snapshot and was scanned without error, the reported changes
\* are those of detect_changes(previous, latest) on the storage after the
\* scan, up to detection timestamps and order.
C30_ReDiff ==
  pc = "returned" =>
    \A y \in DOMAIN current_snapshots :
      Called(y, "get_latest_snapshot", "found") =>
        LET p == get_previous_snapshot(files, y, now)
            l == get_latest_snapshot(files, y, now)
        IN /\ p # NoSnapshot
           /\ \E r \in detect_changes(p, l, now) :
                /\ r.raised = ""
                /\ Len(r.value) = Len(all_changes[y])
                /\ Untimed(r.value) = Untimed(all_changes[y])

\* ------------------------------------------------------ fetch specification
\* The pages a scraper fetches, and what a response can carry.
Urls == {"https://fixo.pt", "https://fixo.pt/sobre"}
Bodies == {"<html>1</html>", "<html>2</html>", ""}

\* 2 ** attempt
RECURSIVE Pow2(_)
Pow2(n) == IF n = 0 THEN 1 ELSE 2 * Pow2(n - 1)

RequestException == "RequestException"

\* BaseScraper.__init__ reads max_retries and the delay from the settings;
\* fetch_page(url) enters its loop with attempt = 1.
InitFetch ==
  /\ now = 0
  /\ files = [c \in Companies |-> <<>>]
  /\ dirs = {}
  /\ ret = [op |-> "init", company_id |-> "-"]
  /\ saved = [c \in Companies |-> <<>>]
  /\ wrote = [c \in Companies |-> <<>>]
  /\ old = NoSnapshot
  /\ new = NoSnapshot
  /\ result = NotRun
  /\ AgentIdle
  /\ RaceIdle
  /\ fpc = "attempt"
  /\ url \in Urls
  /\ max_retries \in 1..MaxRetries
  /\ delay \in 0..MaxDelay
  /\ attempt = 1
  /\ fetched = <<>>
  /\ sleeps = <<>>
  /\ fres = NotRun

\* Variant: the backoff sleep is not guarded by attempt < max_retries.
FetchFailed_AlwaysSleeps ==
  /\ fetched' = Append(fetched, Raise(RequestException))
  /\ sleeps' = Append(sleeps, Pow2(attempt))
  /\ IF attempt < max_retries
     THEN /\ attempt' = attempt + 1
          /\ UNCHANGED <<fpc, fres>>
     ELSE /\ fpc' = "done"
          /\ fres' = Return(None)
          /\ UNCHANGED attempt

\* The except branch of one iteration: the error is logged, the backoff
\* sleep runs unless this was the last attempt, and the loop goes on; after
\* the last attempt the loop ends and fetch_page returns None.
FetchFailed ==
  /\ fetched' = Append(fetched, Raise(RequestException))
  /\ IF attempt < max_retries
     THEN /\ sleeps' = Append(sleeps, Pow2(attempt))
          /\ attempt' = attempt + 1
          /\ UNCHANGED <<fpc, fres>>
     ELSE /\ fpc' = "done"
          /\ fres' = Return(None)
          /\ UNCHANGED <<sleeps, attempt>>

\* The try branch of one iteration when session.get and raise_for_status
\* succeed: the politeness delay, then return response.text.
FetchSucceeded(body) ==
  /\ fetched' = Append(fetched, Return(Str(body)))
  /\ sleeps' = Append(sleeps, delay)
  /\ fpc' = "done"
  /\ fres' = Return(Str(body))
  /\ UNCHANGED attempt

\* One iteration of the loop of fetch_page.
FetchAttempt ==
  /\ fpc = "attempt"
  /\ \/ \E body \in Bodies : FetchSucceeded(body)
     \/ FetchFailed
  /\ UNCHANGED <<svars, dvars, avars, rvars, url, max_retries, delay>>

NextFetch == FetchAttempt

SpecFetch == InitFetch /\ [][NextFetch]_vars

\* ----------------------------------------------------------- fetch properties
Failures == {i \in 1..Len(fetched) : fetched[i].raised = RequestException}

\* C27: bounded retry.  fetch_page never makes more than max_retries
\* attempts and never raises; when it has returned, only its last attempt
\* can have succeeded and then its body is the result, the result is None
\* when all max_retries attempts failed, and the backoff sleeps are
\* 2^1, 2^2, ... one after each failed attempt but the last of max_retries.
C27_BoundedRetry ==
  /\ Len(fetched) <= max_retries
  /\ fpc = "attempt" => (Len(fetched) < max_retries /\ attempt = Len(fetched) + 1)
  /\ \A i \in 1..Len(fetched) : i < Len(fetched) => i \in Failures
  /\ fpc = "done" =>
       /\ fres.raised = ""
       /\ LET n == Len(fetched)
              backoffs == IF n \in Failures THEN sleeps
                          ELSE SubSeq(sleeps, 1, Len(sleeps) - 1)
          IN /\ n >= 1
             /\ IF n \in Failures
                THEN n = max_retries /\ fres.value = None
                ELSE fres = fetched[n]
             /\ backoffs = [i \in 1..(n - 1) |-> Pow2(i)]

C27_Witness ==
  /\ fpc = "done"
  /\ max_retries = 3
  /\ Len(fetched) = 3
  /\ Failures = {1, 2, 3}
  /\ sleeps = <<2, 4>>
  /\ fres.value = None

\* ------------------------------------------- concurrent storage specification
\* One save_snapshot and one read run against the same base_dir without any
\* lock (storage.py takes none).  A step is one file system call that the
\* other call cannot split: opening the new file (which creates or truncates
\* it), writing its content, listing a directory, unlinking one file,
\* loading one file.

\* The k-th snapshot of the history a company has before the two calls.
Hist(c, k) ==
  CompanySnapshot(c, k * TicksPerSecond, <<"A">>, <<>>, <<>>, <<>>, <<>>, <<>>, 0)

ReadOps == {"get_latest_snapshot", "get_previous_snapshot", "get_all_snapshots"}

FileNotFoundError == "FileNotFoundError"

\* json.JSONDecodeError, raised by json.loads on a file without its content.
JSONDecodeError == "JSONDecodeError"

\* Each company has up to max_per_company snapshots, saved one per second;
\* the save and the read start in a later second.
InitRace ==
  /\ now = MaxPerCompany * TicksPerSecond
  /\ \E h \in [Companies -> 0..MaxPerCompany] :
       /\ files = [c \in Companies |->
                     [k \in 0..(h[c] - 1) |-> to_json(Hist(c, k))]]
       /\ dirs = {c \in Companies : h[c] > 0}
       /\ saved = [c \in Companies |-> [i \in 1..h[c] |-> Hist(c, i - 1)]]
       /\ wrote = [c \in Companies |-> [k \in 0..(h[c] - 1) |-> k + 1]]
  /\ ret = [op |-> "init", company_id |-> "-"]
  /\ old = NoSnapshot
  /\ new = NoSnapshot
  /\ result = NotRun
  /\ AgentIdle
  /\ FetchIdle
  /\ wpc = "open"
  /\ \E c \in Companies :
       wsnap = CompanySnapshot(c, NoTimestamp, <<"B">>, <<>>, <<>>, <<>>,
                               <<>>, <<>>, now)
  /\ wdoomed = <<>>
  /\ rpc = "list"
  /\ rop \in ReadOps
  /\ rcid \in Companies
  /\ rlist = <<>>
  /\ rres = Return(<<>>)

\* save_snapshot up to open(filepath, "w") inside snapshot.save: the
\* directory exists and the file is there, empty.
W_Open ==
  /\ wpc = "open"
  /\ LET cid == wsnap.company_id
         name == filename(cid, now)
     IN /\ dirs' = company_dir(dirs, cid)
        /\ files' = Truncate(files, cid, name)
        /\ saved' = [saved EXCEPT ![cid] = Append(@, wsnap)]
        /\ wrote' = [wrote EXCEPT ![cid] =
                       [k \in DOMAIN files'[cid] |->
                          IF k = name THEN Len(saved[cid]) + 1
                          ELSE wrote[cid][k]]]
        /\ ret' = [op |-> "save_snapshot", company_id |-> cid]
  /\ wpc' = "write"
  /\ UNCHANGED <<now, dvars, avars, fvars, wsnap, wdoomed, rpc, rop, rcid, rlist, rres>>

\* snapshot.save: f.write(self.to_json()) and the close of the file.
W_Write ==
  /\ wpc = "write"
  /\ LET cid == wsnap.company_id
         name == filename(cid, now)
     IN files' = WriteFile(files, cid, name, wsnap)
  /\ wpc' = "cleanup"
  /\ UNCHANGED <<now, dirs, ret, saved, wrote, dvars, avars, fvars, wsnap, wdoomed, rpc, rop, rcid, rlist, rres>>

\* _cleanup_old_snapshots: the listing and the choice of files[max:].
W_List ==
  /\ wpc = "cleanup"
  /\ LET fl == sorted_reverse(glob(files, wsnap.company_id))
         doomed == IF Len(fl) > MaxPerCompany
                   THEN Slice(fl, MaxPerCompany) ELSE <<>>
     IN /\ wdoomed' = doomed
        /\ wpc' = IF Len(doomed) = 0 THEN "done" ELSE "unlink"
  /\ UNCHANGED <<svars, dvars, avars, fvars, wsnap, rpc, rop, rcid, rlist, rres>>

\* _cleanup_old_snapshots: one f.unlink() of the loop.
W_Unlink ==
  /\ wpc = "unlink"
  /\ LET cid == wsnap.company_id
         f == Head(wdoomed)
     IN /\ files' = [files EXCEPT ![cid] =
                       [k \in (DOMAIN files[cid]) \ {f} |-> files[cid][k]]]
        /\ wrote' = [wrote EXCEPT ![cid] =
                       [k \in (DOMAIN wrote[cid]) \ {f} |-> wrote[cid][k]]]
  /\ wdoomed' = Tail(wdoomed)
  /\ wpc' = IF Len(wdoomed) = 1 THEN "done" ELSE "unlink"
  /\ UNCHANGED <<now, dirs, ret, saved, dvars, avars, fvars, wsnap, rpc, rop, rcid, rlist, rres>>

\* The files a read loads, out of its listing: files[0], files[1] or all.
ToLoad(op, fl) ==
  CASE op = "get_latest_snapshot" -> IF Len(fl) = 0 THEN <<>> ELSE <<fl[1]>>
    [] op = "get_previous_snapshot" -> IF Len(fl) < 2 THEN <<>> ELSE <<fl[2]>>
    [] op = "get_all_snapshots" -> fl

\* A read up to its sorted(company_dir.glob(...), reverse=True).
R_List ==
  /\ rpc = "list"
  /\ LET fl == sorted_reverse(glob(files, rcid))
     IN /\ rlist' = ToLoad(rop, fl)
        /\ rpc' = IF Len(ToLoad(rop, fl)) = 0 THEN "done" ELSE "load"
  /\ dirs' = company_dir(dirs, rcid)
  /\ ret' = [op |-> rop, company_id |-> rcid]
  /\ UNCHANGED <<now, files, saved, wrote, dvars, avars, fvars, wpc, wsnap, wdoomed, rop, rcid, rres>>

\* A read: one CompanySnapshot.load(str(f)).  open raises when the file has
\* been unlinked since the listing; json.loads raises when the file has been
\* opened for writing and its content is not there yet.
R_Load ==
  /\ rpc = "load"
  /\ LET name == Head(rlist)
     IN CASE name \notin glob(files, rcid) ->
               /\ rres' = Raise(FileNotFoundError)
               /\ rlist' = <<>>
               /\ rpc' = "done"
          [] name \in glob(files, rcid) /\ load_raises(files, rcid, name) ->
               /\ rres' = Raise(JSONDecodeError)
               /\ rlist' = <<>>
               /\ rpc' = "done"
          [] OTHER ->
               /\ rres' = Return(Append(rres.value,
                                        load(files, rcid, name, now)))
               /\ rlist' = Tail(rlist)
               /\ rpc' = IF Len(rlist) = 1 THEN "done" ELSE "load"
  /\ UNCHANGED <<svars, dvars, avars, fvars, wpc, wsnap, wdoomed, rop, rcid>>

NextRace ==
  \/ W_Open
  \/ W_Write
  \/ W_List
  \/ W_Unlink
  \/ R_List
  \/ R_Load

SpecRace == InitRace /\ [][NextRace]_vars

\* ------------------------------------------------ concurrent storage properties
\* C25: retention does not race with reads.  In every interleaving of a
\* save_snapshot (pruning included) with a latest, previous or all read, the
\* read completes without raising and every snapshot it returns was stored
\* for its company.
C25_NoDeletionRace ==
  rpc = "done" =>
    /\ rres.raised = ""
    /\ \A i \in 1..Len(rres.value) :
         \E j \in 1..Len(saved[rcid]) : rres.value[i] = saved[rcid][j]

TypeOK ==
  /\ now \in 0..MaxClock
  /\ dirs \subseteq Companies
====
